---- MODULE Spec2Model ----
(***************************************************************************)
(* A model of tts_controller: the TTSModelManager registry                 *)
(* (models/manager.py), the TTSServer handle it starts and stops, and the  *)
(* status mapping of the HTTP control surface (main.py).                   *)
(*                                                                         *)
(* Every coroutine is cut at the places where it can be observed: one      *)
(* action per block of code, the position of each call kept in tasks[t].pc.*)
(* What the outside world answers (lsof, Popen, the health poll, the root  *)
(* page, killpg/wait, /api/tts) is drawn with \E from the outcomes the     *)
(* code distinguishes.                                                     *)
(***************************************************************************)
EXTENDS Integers, Sequences, FiniteSets, TLC

\* ------------------------------------------------------------------ bounds

\* TTSServer objects constructed in one behaviour (each known load_model
\* constructs one).
MaxServers == 2

\* ------------------------------------------------------- program constants

base_port == 5002
max_attempts == 120
\* max_retries as it would be after an off-by-one slip.
max_retries_one_more == 3 + 1
max_retries == 3

\* Python's None, for identifiers and strings.
None == "<None>"
\* No TTSServer object, no process (Python's None for object references).
NoServer == 0
\* The empty mapping.
Empty == [h \in {} |-> NoServer]

\* The catalog keys of TTSModelManager.models (two of the four entries).
Catalog == {"xtts_v2", "bark"}

model_name(id) ==
    IF id = "xtts_v2" THEN "tts_models/multilingual/multi-dataset/xtts_v2"
    ELSE "tts_models/multilingual/multi-dataset/bark"

\* Identifiers a caller may pass: the catalog, one unknown key and the empty
\* string (which Python's truth test treats like None).
ModelIds == Catalog \cup {"nope", ""}
SpeakerIds == {None, "", "alice"}
LanguageIds == {None, "el"}

\* The request handlers (coroutines) the event loop may hold at once. Spec
\* is the serialized use of the registry: its calls run on SeqTasks, each
\* beginning when no call is in flight.
Tasks == {"t1", "t2"}
SeqTasks == {"t1"}

ServerIds == 1..MaxServers

\* ------------------------------------------------------------------- state

VARIABLES
    models,        \* TTSModelManager.models: id -> [loaded, instance]
    active_model,  \* TTSModelManager.active_model
    servers,       \* the TTSServer objects still referenced: id -> fields
    procs,         \* live backend processes spawned by Popen: pid -> port
    next_id,       \* identity of the next TTSServer object
    stop_calls,    \* history: the servers whose stop() has been called
    tasks          \* per coroutine: position, arguments, locals, result

vars == <<models, active_model, servers, procs, next_id, stop_calls, tasks>>

\* ----------------------------------------------------------------- results

ReturnBool(b) == [kind |-> "bool", val |-> IF b THEN "True" ELSE "False"]
ReturnNone == [kind |-> "none", val |-> ""]
ReturnBytes(body) == [kind |-> "bytes", val |-> body]
RaiseValueError(msg) == [kind |-> "ValueError", val |-> msg]
ReturnListing == [kind |-> "listing", val |-> ""]
NoResult == [kind |-> "pending", val |-> ""]

UnknownModel == RaiseValueError("Unknown model")
NoActiveModel == RaiseValueError("No active model")
ModelNotLoaded == RaiseValueError("is not loaded")

\* ------------------------------------------------------------- TTSServer

\* TTSServer.__init__
TTSServer(name, port) ==
    [model_name |-> name, port |-> port, process |-> NoServer,
     speakers |-> {}, languages |-> {}]

\* What killpg/wait do in TTSServer.stop:
\*   "terminated"  SIGTERM sent, the process exits within the 5 s wait
\*   "killed"      the wait times out, SIGKILL is sent
\*   "error"       getpgid/killpg/wait raises: caught, stop returns False
StopOutcomes == {"terminated", "killed", "error"}

\* TTSServer.stop on server object s with live processes ps:
\* the server after the call, the processes after it, and the return value.
stop(s, ps, outcome) ==
    IF s.process = NoServer
    THEN [server |-> s, procs |-> ps, ok |-> TRUE]
    ELSE IF outcome = "error"
    THEN [server |-> s, procs |-> ps, ok |-> FALSE]
    ELSE [server |-> [s EXCEPT !.process = NoServer],
          procs |-> [p \in DOMAIN ps \ {s.process} |-> ps[p]],
          ok |-> TRUE]

\* --------------------------------------------------------- TTSModelManager

\* The TTSServer objects some reference still reaches: a catalog entry's
\* instance, or a local of a coroutine in flight.
Referenced(mdls, tks) ==
    ({mdls[id].instance : id \in Catalog} \cup {tks[t].server : t \in Tasks})
        \ {NoServer}

\* Objects no reference reaches are gone (CPython frees them at once).
Collect(srvs, mdls, tks) ==
    [h \in DOMAIN srvs \cap Referenced(mdls, tks) |-> srvs[h]]

LoadedCount(mdls) == Cardinality({id \in Catalog : mdls[id].loaded})

\* unload_model as it would be if a failed stop() left the entry as it was
\* (and reported the failure).
unload_model_keeps_failed(id, outcome) ==
    LET h == models[id].instance
        r == stop(servers[h], procs, outcome)
        same == [models |-> models, active_model |-> active_model,
                 servers |-> servers, procs |-> procs, stop_calls |-> stop_calls,
                 stopped |-> "not called", ret |-> TRUE]
    IN IF ~models[id].loaded THEN same
       ELSE IF ~r.ok
       THEN [same EXCEPT !.stop_calls = stop_calls \cup {h},
                         !.stopped = "failed", !.ret = FALSE]
       ELSE [models |-> [models EXCEPT ![id] = [loaded |-> FALSE, instance |-> NoServer]],
             active_model |-> IF active_model = id THEN None ELSE active_model,
             servers |-> [servers EXCEPT ![h] = r.server],
             procs |-> r.procs,
             stop_calls |-> stop_calls \cup {h},
             stopped |-> "ok", ret |-> TRUE]

\* unload_model as it would be if it cleared active_model before looking at
\* the entry.
unload_model_clears_active(id, outcome) ==
    LET h == models[id].instance
        r == stop(servers[h], procs, outcome)
    IN IF ~models[id].loaded
       THEN [models |-> models, active_model |-> None,
             servers |-> servers, procs |-> procs, stop_calls |-> stop_calls,
             stopped |-> "not called", ret |-> TRUE]
       ELSE [models |-> [models EXCEPT ![id] = [loaded |-> FALSE, instance |-> NoServer]],
             active_model |-> None,
             servers |-> [servers EXCEPT ![h] = r.server],
             procs |-> r.procs,
             stop_calls |-> stop_calls \cup {h},
             stopped |-> IF r.ok THEN "ok" ELSE "failed", ret |-> TRUE]

\* The body of unload_model for a catalog id: the manager's fields, the
\* server objects, the processes and the stop history after it, and the value
\* returned.
unload_model(id, outcome) ==
    IF ~models[id].loaded
    THEN [models |-> models, active_model |-> active_model,
          servers |-> servers, procs |-> procs, stop_calls |-> stop_calls,
          stopped |-> "not called", ret |-> TRUE]
    ELSE
        LET h == models[id].instance
            r == IF h # NoServer
                 THEN stop(servers[h], procs, outcome)
                 ELSE [server |-> Empty, procs |-> procs, ok |-> TRUE]
        IN [models |-> [models EXCEPT ![id] = [loaded |-> FALSE, instance |-> NoServer]],
            active_model |-> IF active_model = id THEN None ELSE active_model,
            servers |-> IF h # NoServer
                        THEN [servers EXCEPT ![h] = r.server]
                        ELSE servers,
            procs |-> r.procs,
            stop_calls |-> IF h # NoServer THEN stop_calls \cup {h} ELSE stop_calls,
            stopped |-> IF h = NoServer THEN "not called"
                        ELSE IF r.ok THEN "ok" ELSE "failed",
            ret |-> TRUE]

\* ------------------------------------------------------------------- tasks

Snapshot ==
    [models |-> models, active_model |-> active_model, servers |-> servers,
     procs |-> procs, next_id |-> next_id, stop_calls |-> stop_calls]

NoSnapshot ==
    [models |-> [id \in Catalog |-> [loaded |-> FALSE, instance |-> NoServer]],
     active_model |-> None, servers |-> Empty, procs |-> Empty, next_id |-> 1,
     stop_calls |-> {}]

IdleTask ==
    [pc |-> "idle", op |-> "none",
     model_id |-> None, speaker_id |-> None, language_id |-> None,
     server |-> NoServer,      \* the TTSServer the call holds (a local)
     pid |-> NoServer,         \* _kill_process_on_port: the pid lsof found
     attempt |-> 0,            \* the loop variable of the poll / retry loop
     started |-> FALSE,        \* what server.start returned
     params |-> {},            \* the request parameters synthesize sends
     result |-> NoResult,
     temp_file |-> "none",     \* synthesize_text: temp_file_path (none/exists/deleted)
     \* history of the call, read by the properties only
     pre |-> NoSnapshot,       \* the state when the call began
     used |-> NoServer,        \* the TTSServer the call worked on
     stopped |-> "not called", \* stop() during the call: not called/ok/failed
     held_after_stop |-> NoServer, \* self.process of that server after stop()
     stops_at_spawn |-> {},    \* stop_calls when the call spawned its process
     healthy |-> FALSE,        \* a health poll answered 200
     exhausted |-> FALSE,      \* max_attempts polls went by without a 200
     log |-> <<>>,             \* the backend's answers to /api/tts
     delays |-> 0]             \* retry delays of synthesize slept through

Begin(op, id) ==
    [IdleTask EXCEPT !.op = op, !.model_id = id, !.pre = Snapshot]

\* The call returns (or raises) res: its locals are gone.
Finish(tk, res) ==
    [tk EXCEPT !.pc = "done", !.result = res, !.server = NoServer,
               !.pid = NoServer]

Init ==
    /\ models = [id \in Catalog |-> [loaded |-> FALSE, instance |-> NoServer]]
    /\ active_model = None
    /\ servers = Empty
    /\ procs = Empty
    /\ next_id = 1
    /\ stop_calls = {}
    /\ tasks = [t \in Tasks |-> IdleTask]

\* ------------------------------------------------------------ load_model

\* load_model as it would be if the catalog check came after lines 243-245.
LoadCallLateCheck(t, id) ==
    /\ tasks[t].pc = "idle"
    /\ id \in Catalog => next_id <= MaxServers
    /\ IF id \in Catalog
       THEN /\ tasks' = [tasks EXCEPT ![t] =
                   [Begin("load_model", id) EXCEPT !.pc = "load_unload_active"]]
            /\ UNCHANGED <<models, active_model, servers, procs, stop_calls>>
       ELSE IF active_model = None
       THEN /\ tasks' = [tasks EXCEPT ![t] =
                   Finish(Begin("load_model", id), UnknownModel)]
            /\ UNCHANGED <<models, active_model, servers, procs, stop_calls>>
       ELSE \E outcome \in StopOutcomes :
              LET u == unload_model(active_model, outcome)
                  tk == [tasks EXCEPT ![t] =
                            Finish(Begin("load_model", id), UnknownModel)]
              IN /\ models' = u.models
                 /\ active_model' = u.active_model
                 /\ procs' = u.procs
                 /\ stop_calls' = u.stop_calls
                 /\ tasks' = tk
                 /\ servers' = Collect(u.servers, u.models, tk)
    /\ UNCHANGED next_id

\* load_model, lines 238-241: the catalog check.
LoadCall(t, id) ==
    /\ tasks[t].pc = "idle"
    /\ id \in Catalog => next_id <= MaxServers
    /\ tasks' = [tasks EXCEPT ![t] =
            IF id \notin Catalog
            THEN Finish(Begin("load_model", id), UnknownModel)
            ELSE [Begin("load_model", id) EXCEPT !.pc = "load_unload_active"]]
    /\ UNCHANGED <<models, active_model, servers, procs, next_id, stop_calls>>

\* load_model as it would be without lines 243-245.
LoadSkipUnload(t) ==
    /\ tasks[t].pc = "load_unload_active"
    /\ tasks' = [tasks EXCEPT ![t].pc = "load_construct"]
    /\ UNCHANGED <<models, active_model, servers, procs, next_id, stop_calls>>

\* load_model, lines 243-245: unload the active model first.
LoadUnloadActive(t) ==
    /\ tasks[t].pc = "load_unload_active"
    /\ IF active_model # None
       THEN \E outcome \in StopOutcomes :
              LET u == unload_model(active_model, outcome)
                  h == models[active_model].instance
                  tk == [tasks EXCEPT ![t].pc = "load_construct",
                                      ![t].stopped = u.stopped,
                                      ![t].held_after_stop =
                                          IF u.stopped = "not called" THEN NoServer
                                          ELSE u.servers[h].process]
              IN /\ models' = u.models
                 /\ active_model' = u.active_model
                 /\ procs' = u.procs
                 /\ stop_calls' = u.stop_calls
                 /\ tasks' = tk
                 /\ servers' = Collect(u.servers, u.models, tk)
       ELSE /\ tasks' = [tasks EXCEPT ![t].pc = "load_construct"]
            /\ UNCHANGED <<models, active_model, servers, procs, stop_calls>>
    /\ UNCHANGED next_id

\* load_model, lines 248-252: the port and the TTSServer object.
LoadConstruct(t) ==
    /\ tasks[t].pc = "load_construct"
    /\ LET port == base_port + LoadedCount(models)
           h == next_id
       IN /\ servers' = (h :> TTSServer(model_name(tasks[t].model_id), port)) @@ servers
          /\ next_id' = h + 1
          /\ tasks' = [tasks EXCEPT ![t].server = h, ![t].used = h,
                                     ![t].pc = "start_kill_port"]
    /\ UNCHANGED <<models, active_model, procs, stop_calls>>

\* --------------------------------------------------------- TTSServer.start

\* _kill_process_on_port, lines 124-136. Either nothing is signalled and
\* nothing is waited for (lsof names no pid, or the lookup or the kill
\* raises, which is swallowed); or lsof names one pid (a process of ours
\* still bound to the port, or a foreign one: NoServer), which is sent
\* SIGTERM and given the sleep of line 137.
StartKillPort(t) ==
    /\ tasks[t].pc = "start_kill_port"
    /\ LET port == servers[tasks[t].server].port
       IN \/ tasks' = [tasks EXCEPT ![t].pc = "start_spawn"]
          \/ \E pid \in {NoServer} \cup {p \in DOMAIN procs : procs[p] = port} :
                tasks' = [tasks EXCEPT ![t].pc = "start_kill_sleep", ![t].pid = pid]
    /\ UNCHANGED <<models, active_model, servers, procs, next_id, stop_calls>>

\* _kill_process_on_port, lines 137-144: after the sleep the pid is gone
\* (it exited on SIGTERM, or is sent SIGKILL).
StartKillSleep(t) ==
    /\ tasks[t].pc = "start_kill_sleep"
    /\ procs' = [p \in DOMAIN procs \ {tasks[t].pid} |-> procs[p]]
    /\ tasks' = [tasks EXCEPT ![t].pc = "start_spawn", ![t].pid = NoServer]
    /\ UNCHANGED <<models, active_model, servers, next_id, stop_calls>>

\* start, lines 69-76 and 99-104: Popen gives a process (its pid is the
\* server's identity here), or raises and start returns False.
StartSpawn(t) ==
    /\ tasks[t].pc = "start_spawn"
    /\ LET h == tasks[t].server
       IN \/ /\ servers' = [servers EXCEPT ![h].process = h]
             /\ procs' = (h :> servers[h].port) @@ procs
             /\ tasks' = [tasks EXCEPT ![t].pc = "start_poll", ![t].attempt = 0,
                                        ![t].stops_at_spawn = stop_calls]
          \/ /\ tasks' = [tasks EXCEPT ![t].pc = "load_finish", ![t].started = FALSE]
             /\ UNCHANGED <<servers, procs>>
    /\ UNCHANGED <<models, active_model, next_id, stop_calls>>

\* What one health poll (requests.get of the root page, timeout 1 s) gives.
PollOutcomes == {"200", "non200", "RequestException"}

\* on_poll as it would be if any HTTP response counted as healthy.
on_poll_any_response(outcome) ==
    IF outcome \in {"200", "non200"} THEN "healthy" ELSE "sleep"

\* start, lines 83-94: what one poll makes of the loop: "healthy" (go on to
\* _fetch_model_info and return True), "again" (next pass at once) or
\* "sleep" (sleep 1 s, then the next pass).
on_poll(outcome) ==
    IF outcome = "200" THEN "healthy"
    ELSE IF outcome = "non200" THEN "again"
    ELSE "sleep"

\* start, lines 80-97: one pass of the polling loop (the loop variable is
\* dead once the loop is left, and is reset there).
StartPoll(t) ==
    /\ tasks[t].pc = "start_poll"
    /\ IF tasks[t].attempt < max_attempts
       THEN \E outcome \in PollOutcomes :
              tasks' = [tasks EXCEPT ![t] =
                 LET seen == [@ EXCEPT !.healthy = (outcome = "200")]
                 IN IF on_poll(outcome) = "healthy"
                    THEN [seen EXCEPT !.pc = "start_fetch_info", !.attempt = 0]
                    ELSE IF on_poll(outcome) = "again"
                    THEN [seen EXCEPT !.attempt = @ + 1]
                    ELSE [seen EXCEPT !.pc = "start_poll_sleep"]]
       ELSE tasks' = [tasks EXCEPT ![t].pc = "load_finish", ![t].started = FALSE,
                                   ![t].attempt = 0, ![t].exhausted = TRUE]
    /\ UNCHANGED <<models, active_model, servers, procs, next_id, stop_calls>>

\* start, lines 92-94: the sleep after a failed request is over.
StartPollSleep(t) ==
    /\ tasks[t].pc = "start_poll_sleep"
    /\ tasks' = [tasks EXCEPT ![t].pc = "start_poll", ![t].attempt = @ + 1]
    /\ UNCHANGED <<models, active_model, servers, procs, next_id, stop_calls>>

\* The root pages the backend may serve: whether each <select> is there,
\* and the value="..." attributes inside it.
Pages ==
    { [speaker_match |-> FALSE, speaker_values |-> {},
       language_match |-> FALSE, language_values |-> {}],
      [speaker_match |-> TRUE, speaker_values |-> {},
       language_match |-> TRUE, language_values |-> {"el"}],
      [speaker_match |-> TRUE, speaker_values |-> {"alice"},
       language_match |-> TRUE, language_values |-> {"el"}] }

FetchOutcomes == {"exception", "non200"}

\* _fetch_model_info, lines 26-52, on server object s: the object after it.
\* (Its return value is not used by start: both branches return True.)
fetch_model_info(s, outcome, page) ==
    IF outcome \in FetchOutcomes
    THEN s
    ELSE LET sp == IF page.speaker_match THEN page.speaker_values ELSE s.speakers
             la == IF page.language_match THEN page.language_values ELSE s.languages
         IN [s EXCEPT !.speakers = IF sp = {} THEN {"default"} ELSE sp,
                      !.languages = IF la = {} THEN {"en"} ELSE la]

\* start, lines 84-91: after the first 200, discover speakers and languages
\* and return True.
\* The requests.get of line 29 is given no timeout: a backend that accepts
\* the connection and sends nothing keeps the call (and the event loop it
\* runs on) in it for good; nothing leads out of "start_fetch_blocked".
StartFetchInfo(t) ==
    /\ tasks[t].pc = "start_fetch_info"
    /\ \/ /\ \E outcome \in FetchOutcomes \cup {"200"}, page \in Pages :
                servers' = [servers EXCEPT ![tasks[t].server] =
                                fetch_model_info(@, outcome, page)]
          /\ tasks' = [tasks EXCEPT ![t].pc = "load_finish", ![t].started = TRUE]
       \/ /\ tasks' = [tasks EXCEPT ![t].pc = "start_fetch_blocked"]
          /\ UNCHANGED servers
    /\ UNCHANGED <<models, active_model, procs, next_id, stop_calls>>

\* record_loaded as it would be if active_model were not set.
record_loaded_no_active(id, h) ==
    [models |-> [models EXCEPT ![id] = [loaded |-> TRUE, instance |-> h]],
     active_model |-> active_model]

\* load_model, lines 259-261: the entry and active_model once start
\* returned True for server h.
record_loaded(id, h) ==
    [models |-> [models EXCEPT ![id] = [loaded |-> TRUE, instance |-> h]],
     active_model |-> id]

\* load_model, lines 258-268: record the started server, or report failure.
LoadFinish(t) ==
    /\ tasks[t].pc = "load_finish"
    /\ LET id == tasks[t].model_id
           r == IF tasks[t].started
                THEN record_loaded(id, tasks[t].server)
                ELSE [models |-> models, active_model |-> active_model]
           tk == [tasks EXCEPT ![t] = Finish(@, ReturnBool(tasks[t].started))]
       IN /\ models' = r.models
          /\ active_model' = r.active_model
          /\ tasks' = tk
          /\ servers' = Collect(servers, r.models, tk)
    /\ UNCHANGED <<procs, next_id, stop_calls>>

\* ---------------------------------------------------------- unload_model

\* unload_model, lines 274-277: the catalog check.
UnloadCall(t, id) ==
    /\ tasks[t].pc = "idle"
    /\ tasks' = [tasks EXCEPT ![t] =
            IF id \notin Catalog
            THEN Finish(Begin("unload_model", id), UnknownModel)
            ELSE [Begin("unload_model", id) EXCEPT !.pc = "unload_body"]]
    /\ UNCHANGED <<models, active_model, servers, procs, next_id, stop_calls>>

\* unload_model, lines 279-297.
UnloadBody(t) ==
    /\ tasks[t].pc = "unload_body"
    /\ \E outcome \in StopOutcomes :
          LET u == unload_model(tasks[t].model_id, outcome)
              h == models[tasks[t].model_id].instance
              tk == [tasks EXCEPT ![t] =
                        Finish([@ EXCEPT !.stopped = u.stopped,
                                         !.held_after_stop =
                                             IF u.stopped = "not called" THEN NoServer
                                             ELSE u.servers[h].process,
                                         !.used = models[tasks[t].model_id].instance],
                               ReturnBool(u.ret))]
          IN /\ models' = u.models
             /\ active_model' = u.active_model
             /\ procs' = u.procs
             /\ stop_calls' = u.stop_calls
             /\ tasks' = tk
             /\ servers' = Collect(u.servers, u.models, tk)
    /\ UNCHANGED next_id

\* list_models, lines 318-334 (main.py, lines 28-31): one pass over the
\* catalog, without an await; the listing is the entries as they are now
\* (kept in pre).
ListCall(t) ==
    /\ tasks[t].pc = "idle"
    /\ tasks' = [tasks EXCEPT ![t] = Finish(Begin("list_models", None), ReturnListing)]
    /\ UNCHANGED <<models, active_model, servers, procs, next_id, stop_calls>>

\* ------------------------------------------------------------ synthesize

\* resolve as it would be with the operands swapped
\* (self.active_model or model_id).
resolve_prefers_active(model_id, active) ==
    IF active \in {None, ""} THEN model_id ELSE active

\* TTSModelManager.synthesize, line 301: model_id or self.active_model
\* (None and the empty string are both false).
resolve(model_id, active) ==
    IF model_id \in {None, ""} THEN active ELSE model_id

\* request_params without the membership tests: what was given is sent.
request_params_unchecked(s, speaker_id, language_id) ==
    {"text", "style_wav"}
    \cup (IF speaker_id \notin {None, ""} THEN {"speaker_id"} ELSE {})
    \cup (IF language_id \notin {None, ""} THEN {"language_id"} ELSE {})

\* TTSServer.synthesize, lines 151-158: the names of the request parameters.
request_params(s, speaker_id, language_id) ==
    {"text", "style_wav"}
    \cup (IF speaker_id \notin {None, ""} /\ speaker_id \in s.speakers
          THEN {"speaker_id"} ELSE {})
    \cup (IF language_id \notin {None, ""} /\ language_id \in s.languages
          THEN {"language_id"} ELSE {})

\* TTSModelManager.synthesize, lines 301-312, up to the request parameters
\* built by TTSServer.synthesize, lines 151-158.
SynthCall(t, model_id, speaker_id, language_id) ==
    /\ tasks[t].pc = "idle"
    /\ LET id == resolve(model_id, active_model)
           b == [Begin("synthesize", model_id) EXCEPT
                    !.speaker_id = speaker_id, !.language_id = language_id]
       IN tasks' = [tasks EXCEPT ![t] =
             IF id \in {None, ""}
             THEN Finish(b, NoActiveModel)
             ELSE IF id \notin Catalog
             THEN Finish(b, UnknownModel)
             ELSE IF ~models[id].loaded \/ models[id].instance = NoServer
             THEN Finish(b, ModelNotLoaded)
             ELSE [b EXCEPT !.pc = "synth_request",
                            !.server = models[id].instance,
                            !.used = models[id].instance,
                            !.attempt = 0,
                            !.params = request_params(servers[models[id].instance],
                                                      speaker_id, language_id)]]
    /\ UNCHANGED <<models, active_model, servers, procs, next_id, stop_calls>>

\* What the backend answers to one GET /api/tts: a status with its body, or
\* the exception requests raises.
Bodies == {"RIFF...", ""}
Answer(kind, body) == [kind |-> kind, body |-> body]
SynthAnswers ==
    {Answer("200", b) : b \in Bodies}
    \cup {Answer(k, "") : k \in {"503", "Timeout", "ConnectionError", "500", "Exception"}}

\* on_answer as it would be if every status but 200 were retried.
on_answer_retries_any(a) ==
    IF a.kind = "200" THEN "return"
    ELSE IF a.kind \in {"503", "500", "Timeout", "ConnectionError"} THEN "retry"
    ELSE "fail"

\* TTSServer.synthesize, lines 173-195: what one answer makes of the call:
\* "return" (the payload), "retry" (sleep, next attempt) or "fail" (None).
on_answer(a) ==
    IF a.kind = "200" THEN "return"
    ELSE IF a.kind \in {"503", "Timeout", "ConnectionError"} THEN "retry"
    ELSE "fail"

\* TTSServer.synthesize, lines 165-198: one pass of the retry loop.
SynthRequest(t) ==
    /\ tasks[t].pc = "synth_request"
    /\ LET tk == IF tasks[t].attempt < max_retries
                 THEN {[tasks EXCEPT ![t] =
                          LET l == [@ EXCEPT !.log = Append(@, a)]
                          IN IF on_answer(a) = "return"
                             THEN Finish(l, ReturnBytes(a.body))
                             ELSE IF on_answer(a) = "retry"
                             THEN [l EXCEPT !.pc = "synth_sleep"]
                             ELSE Finish(l, ReturnNone)] : a \in SynthAnswers}
                 ELSE {[tasks EXCEPT ![t] = Finish(@, ReturnNone)]}
       IN \E next \in tk :
             /\ tasks' = next
             /\ servers' = Collect(servers, models, next)
    /\ UNCHANGED <<models, active_model, procs, next_id, stop_calls>>

\* TTSServer.synthesize, lines 178, 187, 191: the retry delay is over.
SynthSleep(t) ==
    /\ tasks[t].pc = "synth_sleep"
    /\ tasks' = [tasks EXCEPT ![t].pc = "synth_request", ![t].attempt = @ + 1,
                               ![t].delays = @ + 1]
    /\ UNCHANGED <<models, active_model, servers, procs, next_id, stop_calls>>

\* ------------------------------------------------------- control surface

\* main.py, load_model (lines 33-45) and unload_model (lines 47-59): the
\* HTTP status for what the manager returned or raised.
lifecycle_status(res) ==
    IF res.kind = "ValueError" THEN 404
    ELSE IF res = ReturnBool(TRUE) THEN 200
    ELSE 500

\* main.py, synthesize_text (lines 61-93): audio_data is served if it is
\* true (not None, not empty).
synthesize_status(res) ==
    IF res.kind = "ValueError" THEN 404
    ELSE IF res.kind = "bytes" /\ res.val # "" THEN 200
    ELSE 500

http_status(tk) ==
    IF tk.op = "synthesize" THEN synthesize_status(tk.result)
    ELSE IF tk.op = "list_models" THEN 200
    ELSE lifecycle_status(tk.result)

\* main.py, line 71: `if audio_data:` of synthesize_text.
ServesFile(tk) == tk.op = "synthesize" /\ synthesize_status(tk.result) = 200

\* synthesize_text, lines 72-83: the audio is written to a named temporary
\* file that outlives the `with` (delete=False), and a FileResponse on its
\* path is built.
SynthesizeTextWrite(t) ==
    /\ tasks[t].pc = "done" /\ ServesFile(tasks[t])
    /\ tasks' = [tasks EXCEPT ![t].pc = "file_response_built",
                               ![t].temp_file = "exists"]
    /\ UNCHANGED <<models, active_model, servers, procs, next_id, stop_calls>>

\* synthesize_text, lines 87-93: on the way out of the `return`, the
\* finally block unlinks the file (or os.unlink raises, which is passed
\* over); the FileResponse then goes to the framework.
SynthesizeTextFinally(t) ==
    /\ tasks[t].pc = "file_response_built"
    /\ \E unlinked \in BOOLEAN :
          tasks' = [tasks EXCEPT ![t].pc = "file_response_returned",
                                 ![t].temp_file = IF unlinked THEN "deleted" ELSE @]
    /\ UNCHANGED <<models, active_model, servers, procs, next_id, stop_calls>>

\* The framework sends the FileResponse it was handed: the file at the path
\* is opened and streamed now (or found missing); the request is over.
SendFileResponse(t) ==
    /\ tasks[t].pc = "file_response_returned"
    /\ tasks' = [tasks EXCEPT ![t] = IdleTask]
    /\ UNCHANGED <<models, active_model, servers, procs, next_id, stop_calls>>

\* The caller has its answer (a JSON body or an HTTPException); the
\* coroutine is over.
Return(t) ==
    /\ tasks[t].pc = "done" /\ ~ServesFile(tasks[t])
    /\ tasks' = [tasks EXCEPT ![t] = IdleTask]
    /\ UNCHANGED <<models, active_model, servers, procs, next_id, stop_calls>>

\* ------------------------------------------------------------- properties

Done(t) == tasks[t].pc = "done"
InFlight(t) == tasks[t].pc \notin {"idle", "done"}
\* The manager's call has returned to the endpoint.
Returned(t) ==
    tasks[t].pc \in {"done", "file_response_built", "file_response_returned"}
\* No registry operation is in progress.
Quiescent == \A t \in Tasks : ~InFlight(t)
Loaded == {id \in Catalog : models[id].loaded}
True == ReturnBool(TRUE)
False == ReturnBool(FALSE)

\* C1: whatever load_model and unload_model calls ran one after another, and
\* whatever each start and stop did, at most one catalog entry is loaded.
C1_AtMostOneLoaded == Cardinality(Loaded) <= 1

\* A second model was loaded although stopping the first one failed.
C1_Witness ==
    \E t \in Tasks :
        /\ Done(t) /\ tasks[t].op = "load_model" /\ tasks[t].result = True
        /\ tasks[t].pre.active_model \notin {None, tasks[t].model_id}
        /\ tasks[t].stopped = "failed"

\* C2: when no operation is in progress, active_model is set exactly if one
\* entry is loaded; it then names that entry, whose instance is a server
\* object; and an entry that is not loaded has no instance.
C2_ActiveIffLoaded ==
    Quiescent =>
        /\ active_model # None <=> Cardinality(Loaded) = 1
        /\ active_model # None =>
              /\ Loaded = {active_model}
              /\ models[active_model].instance \in DOMAIN servers
        /\ \A id \in Catalog : ~models[id].loaded => models[id].instance = NoServer

\* A model is active after a load, and the registry is empty again after
\* an unload of the active model.
C2_Witness ==
    \E t \in Tasks :
        /\ Done(t) /\ tasks[t].op = "unload_model"
        /\ tasks[t].pre.active_model = tasks[t].model_id
        /\ active_model = None /\ Loaded = {}

\* C3: load_model(B) that succeeds while another model A is active leaves A
\* unloaded without instance, B loaded and active, and called stop() on A's
\* server before B's process was spawned.
C3_LoadReplacesActive ==
    \A t \in Tasks :
        LET A == tasks[t].pre.active_model
            B == tasks[t].model_id
        IN (/\ Done(t) /\ tasks[t].op = "load_model" /\ tasks[t].result = True
            /\ A \notin {None, B})
           => /\ ~models[A].loaded /\ models[A].instance = NoServer
              /\ models[B].loaded /\ active_model = B
              /\ models[B].instance = tasks[t].used
              /\ tasks[t].pre.models[A].instance \in tasks[t].stops_at_spawn

C3_Witness ==
    \E t \in Tasks :
        /\ Done(t) /\ tasks[t].op = "load_model" /\ tasks[t].result = True
        /\ tasks[t].pre.active_model \notin {None, tasks[t].model_id}
        /\ tasks[t].pre.models[tasks[t].pre.active_model].instance
              \in tasks[t].stops_at_spawn

\* C4 as stated: every identifier outside the catalog, the empty string
\* included, makes load_model, unload_model and synthesize fail with
\* UnknownModel and leaves the state as it was.
C4_UnknownIdFails_AnyString ==
    \A t \in Tasks :
        (Done(t) /\ tasks[t].model_id \notin Catalog \cup {None})
        => /\ tasks[t].result = UnknownModel
           /\ Snapshot = tasks[t].pre

\* C4, amended: every identifier outside the catalog makes load_model and
\* unload_model fail with UnknownModel, and every non-empty one makes
\* synthesize fail with it; the failed call leaves the registry, the server
\* objects, the processes and the stop history as they were.
C4_UnknownIdFails ==
    \A t \in Tasks :
        (/\ Done(t) /\ tasks[t].model_id \notin Catalog \cup {None}
         /\ tasks[t].op = "synthesize" => tasks[t].model_id # "")
        => /\ tasks[t].result = UnknownModel
           /\ Snapshot = tasks[t].pre

\* load_model of an unknown id has failed while a model is active.
C4_Witness ==
    \E t \in Tasks :
        /\ Done(t) /\ tasks[t].op = "load_model" /\ tasks[t].model_id = "nope"
        /\ tasks[t].result = UnknownModel
        /\ active_model # None /\ active_model = tasks[t].pre.active_model

\* C5 as stated: a load_model whose polling budget went by without a 200
\* returns False, leaves its entry unloaded without instance, and leaves
\* active_model as it was before the call.
C5_FailedLoad_ActiveUnchanged ==
    \A t \in Tasks :
        LET id == tasks[t].model_id
        IN (Done(t) /\ tasks[t].op = "load_model" /\ tasks[t].exhausted)
           => /\ tasks[t].result = False
              /\ ~models[id].loaded /\ models[id].instance = NoServer
              /\ active_model = tasks[t].pre.active_model

\* C5, amended: a load_model whose backend never answered 200 (the polling
\* budget went by, or no process could be spawned) returns False and leaves
\* its entry unloaded without instance; afterwards no model is active and
\* none is loaded (stop() was called on the server of a model active before
\* the call), so active_model keeps its value only if it was unset before.
C5_FailedLoad ==
    \A t \in Tasks :
        LET id == tasks[t].model_id
        IN (/\ Done(t) /\ tasks[t].op = "load_model" /\ id \in Catalog
            /\ ~tasks[t].healthy)
           => /\ tasks[t].result = False
              /\ ~models[id].loaded /\ models[id].instance = NoServer
              /\ active_model = None /\ Loaded = {}
              /\ tasks[t].pre.active_model # None
                    => tasks[t].pre.models[tasks[t].pre.active_model].instance
                          \in stop_calls

\* The polling budget was spent by a load_model called while another model
\* was active.
C5_Witness ==
    \E t \in Tasks :
        /\ Done(t) /\ tasks[t].op = "load_model" /\ tasks[t].exhausted
        /\ tasks[t].pre.active_model \notin {None, tasks[t].model_id}
        /\ tasks[t].result = False

\* C6: an unload_model during which stop() failed returns False, which the
\* control surface reports as 500.
C6_StopFailureReported ==
    \A t \in Tasks :
        (Done(t) /\ tasks[t].op = "unload_model" /\ tasks[t].stopped = "failed")
        => /\ tasks[t].result = False
           /\ http_status(tasks[t]) = 500

\* C7: unload_model of a catalog id returns True and leaves the entry
\* unloaded, and when the entry was not loaded it calls no stop() and leaves
\* the whole state as it was (so a second unload_model in a row is this
\* case: it returns True and changes nothing).
C7_UnloadIdempotent ==
    \A t \in Tasks :
        LET id == tasks[t].model_id
        IN (Done(t) /\ tasks[t].op = "unload_model" /\ id \in Catalog)
           => /\ tasks[t].result = True
              /\ ~models[id].loaded /\ models[id].instance = NoServer
              /\ ~tasks[t].pre.models[id].loaded
                    => /\ Snapshot = tasks[t].pre
                       /\ tasks[t].stopped = "not called"

\* unload_model of an entry that is not loaded has returned while another
\* model is active.
C7_Witness ==
    \E t \in Tasks :
        /\ Done(t) /\ tasks[t].op = "unload_model"
        /\ tasks[t].model_id \in Catalog
        /\ ~tasks[t].pre.models[tasks[t].model_id].loaded
        /\ tasks[t].pre.active_model # None
        /\ tasks[t].result = True

\* What synthesize is to do with its target, "given" telling whether the
\* caller's model_id counts as given: fail at once with NoActiveModel,
\* UnknownModel or ModelNotLoaded, or else work on the instance of the
\* resolved entry.
SynthFailedWith(t, e) ==
    /\ Done(t) /\ tasks[t].result = e
    /\ tasks[t].log = <<>> /\ tasks[t].used = NoServer
SynthRoutes(t, given) ==
    LET pre == tasks[t].pre
        id == IF given THEN tasks[t].model_id ELSE pre.active_model
    IN IF ~given /\ pre.active_model = None THEN SynthFailedWith(t, NoActiveModel)
       ELSE IF id \notin Catalog THEN SynthFailedWith(t, UnknownModel)
       ELSE IF ~pre.models[id].loaded THEN SynthFailedWith(t, ModelNotLoaded)
       ELSE /\ tasks[t].used = pre.models[id].instance
            /\ tasks[t].used # NoServer
            /\ tasks[t].result.kind # "ValueError"
            /\ Done(t) => Len(tasks[t].log) >= 1

\* C8 as stated, a model_id counting as given whenever it is not None.
C8_SynthesizeRouting_AnyString ==
    \A t \in Tasks :
        tasks[t].op = "synthesize" => SynthRoutes(t, tasks[t].model_id # None)

\* C8, amended: the target is the model_id if it is given and not empty,
\* else active_model; synthesize fails before any request with
\* NoActiveModel (no such model_id, no active model), UnknownModel (target
\* not in the catalog) or ModelNotLoaded (target's entry not loaded), and
\* otherwise sends its requests through the instance of the target's entry.
C8_SynthesizeRouting ==
    \A t \in Tasks :
        tasks[t].op = "synthesize"
            => SynthRoutes(t, tasks[t].model_id \notin {None, ""})

\* An explicit model_id was served by its own entry's server, and not by
\* way of active_model.
C8_Witness ==
    \E t \in Tasks :
        /\ Done(t) /\ tasks[t].op = "synthesize"
        /\ tasks[t].model_id \in Catalog
        /\ tasks[t].result.kind = "bytes"
        /\ tasks[t].used = tasks[t].pre.models[tasks[t].model_id].instance

\* C9: the control surface answers 404 to a failure from a bad identifier or
\* a missing active model, and 500 to every other failure (False, None, a
\* known model_id that is not loaded).
C9_StatusClasses ==
    \A t \in Tasks :
        Done(t) =>
            LET r == tasks[t].result
            IN /\ r \in {UnknownModel, NoActiveModel} => http_status(tasks[t]) = 404
               /\ r \in {False, ReturnNone, ModelNotLoaded} => http_status(tasks[t]) = 500

\* C10: a server's synthesize makes at most 3 requests; it returns the body
\* of the first 200 if every answer before it was a 503, a timeout or a
\* connection error, having made exactly that many requests; it returns
\* None otherwise, and gives up on such answers only after the third.
Transient(a) == a.kind \in {"503", "Timeout", "ConnectionError"}
C10_SynthesizeResult ==
    \A t \in Tasks :
        (Done(t) /\ tasks[t].op = "synthesize" /\ tasks[t].used # NoServer)
        => LET log == tasks[t].log
               ok == {k \in 1..Len(log) : log[k].kind = "200"}
               first == CHOOSE k \in ok : \A j \in ok : k <= j
           IN /\ Len(log) \in 1..3
              /\ IF ok # {} /\ first <= 3 /\ \A j \in 1..(first - 1) : Transient(log[j])
                 THEN /\ tasks[t].result = ReturnBytes(log[first].body)
                      /\ Len(log) = first
                 ELSE /\ tasks[t].result = ReturnNone
                      /\ (\A j \in 1..Len(log) : Transient(log[j])) => Len(log) = 3

\* 503, 503, then 200 with body RIFF...: the body is returned after 2 retries.
C10_Witness ==
    \E t \in Tasks :
        /\ Done(t) /\ tasks[t].op = "synthesize"
        /\ tasks[t].log = <<Answer("503", ""), Answer("503", ""), Answer("200", "RIFF...")>>
        /\ tasks[t].result = ReturnBytes("RIFF...")
        /\ tasks[t].attempt = 2

\* C11: within one call of a server's synthesize every request but the last
\* was answered by a 503, a timeout or a connection error, every request
\* after the first came after one more retry delay, a call whose last
\* answer is a 200 or another status has ended (with the body, with None),
\* and no call makes more than 3 requests.
C11_RetryPolicy ==
    \A t \in Tasks :
        (tasks[t].op = "synthesize" /\ tasks[t].used # NoServer)
        => LET log == tasks[t].log
               n == Len(log)
           IN /\ n <= 3
              /\ \A j \in 1..(n - 1) : Transient(log[j])
              /\ n >= 1 => tasks[t].delays >= n - 1
              /\ tasks[t].pc = "synth_request" => tasks[t].delays = n
              /\ (n >= 1 /\ ~Transient(log[n]))
                    => /\ Returned(t)
                       /\ tasks[t].result = IF log[n].kind = "200"
                                            THEN ReturnBytes(log[n].body)
                                            ELSE ReturnNone

\* A timeout was retried after one delay, and the 500 that followed ended
\* the call at once.
C11_Witness ==
    \E t \in Tasks :
        /\ Done(t) /\ tasks[t].op = "synthesize"
        /\ tasks[t].log = <<Answer("Timeout", ""), Answer("500", "")>>
        /\ tasks[t].delays = 1 /\ tasks[t].result = ReturnNone

\* C12: the request of a server's synthesize carries text and style_wav
\* always, speaker_id exactly when one was given and is among the server's
\* speakers, language_id exactly when one was given and is among its
\* languages, and nothing else; a value outside the set is left out and the
\* call goes on to the backend instead of failing.
C12_RequestParams ==
    \A t \in Tasks :
        (tasks[t].op = "synthesize" /\ tasks[t].used # NoServer)
        => LET s == tasks[t].pre.servers[tasks[t].used]
               params == tasks[t].params
           IN /\ {"text", "style_wav"} \subseteq params
              /\ params \subseteq {"text", "style_wav", "speaker_id", "language_id"}
              /\ "speaker_id" \in params
                    <=> (tasks[t].speaker_id # None /\ tasks[t].speaker_id \in s.speakers)
              /\ "language_id" \in params
                    <=> (tasks[t].language_id # None
                            /\ tasks[t].language_id \in s.languages)
              /\ tasks[t].result.kind # "ValueError"
              /\ Done(t) => tasks[t].log # <<>>

\* A speaker the server does not know was left out, the language it knows
\* was sent, and the backend answered with audio.
C12_Witness ==
    \E t \in Tasks :
        /\ Done(t) /\ tasks[t].op = "synthesize" /\ tasks[t].used # NoServer
        /\ tasks[t].speaker_id = "alice" /\ tasks[t].language_id = "el"
        /\ "alice" \notin tasks[t].pre.servers[tasks[t].used].speakers
        /\ tasks[t].params = {"text", "style_wav", "language_id"}
        /\ tasks[t].result = ReturnBytes("RIFF...")

\* C13: whenever start has returned True for a server, the server's
\* speakers and its languages are both non-empty.
C13_CapabilitiesNonEmpty ==
    \A t \in Tasks :
        (tasks[t].pc = "load_finish" /\ tasks[t].started)
        => /\ servers[tasks[t].server].speakers # {}
           /\ servers[tasks[t].server].languages # {}

\* C14: after a stop() has returned, whatever killpg and wait did, the
\* server holds no process; and a stop() of a server that holds no process
\* succeeds and leaves every process alone.
C14_StopClearsProcess ==
    /\ \A t \in Tasks :
          tasks[t].stopped # "not called" => tasks[t].held_after_stop = NoServer
    /\ \A h \in DOMAIN servers, outcome \in StopOutcomes :
          servers[h].process = NoServer
          => stop(servers[h], procs, outcome)
                = [server |-> servers[h], procs |-> procs, ok |-> TRUE]

\* The coroutine's next step sends a request to the backend: a health poll,
\* the root page of _fetch_model_info, or /api/tts.
AboutToRequest(tk) ==
    \/ tk.pc = "start_poll" /\ tk.attempt < max_attempts
    \/ tk.pc \in {"start_fetch_info", "synth_request"}

\* C15: between two consecutive backend requests of one operation there is a
\* suspension point, whatever the backend answered: no step that sends a
\* request leaves the coroutine right before its next request.
C15_SuspendsBetweenRequests ==
    [][\A t \in Tasks :
          (AboutToRequest(tasks[t]) /\ tasks'[t] # tasks[t])
          => ~AboutToRequest(tasks'[t])]_vars

\* C16: with calls that overlap at the suspension points of start, at most
\* one catalog entry is loaded, and no two servers hold live processes on
\* the same port.
C16_OverlapKeepsOneBackend ==
    /\ Cardinality(Loaded) <= 1
    /\ \A g \in DOMAIN servers, h \in DOMAIN servers :
          (g # h /\ servers[g].process \in DOMAIN procs
                 /\ servers[h].process \in DOMAIN procs)
          => servers[g].port # servers[h].port

\* The process a polling start() spawned is gone.
PollingDeadProcess(t) ==
    /\ tasks[t].pc = "start_poll"
    /\ servers[tasks[t].server].process \notin DOMAIN procs

\* C17: once the process start() spawned has exited, the next thing a
\* polling start() does is return False: it sends no further health poll
\* and does not sit out the rest of its 120 passes.
C17_ExitEndsPolling ==
    [][\A t \in Tasks :
          (PollingDeadProcess(t) /\ tasks'[t] # tasks[t])
          => (tasks'[t].pc = "load_finish" /\ ~tasks'[t].started)]_vars

\* The live process p is the one held by the server of a loaded entry.
OwnedByLoaded(p) ==
    \E id \in Catalog :
        /\ models[id].loaded /\ models[id].instance # NoServer
        /\ servers[models[id].instance].process = p

\* C18: while no call is in progress, every live process spawned by the
\* manager on which stop() was never called is held by the server of a
\* loaded entry; a load_model that returned False after its polls ran out
\* has left no live process behind; and an unload_model that found a loaded
\* entry has called stop() on its server.
C18_NoOrphanProcess ==
    /\ Quiescent
          => \A p \in DOMAIN procs : p \notin stop_calls => OwnedByLoaded(p)
    /\ \A t \in Tasks :
          /\ (Done(t) /\ tasks[t].op = "load_model" /\ tasks[t].result = False
                       /\ tasks[t].exhausted)
                => tasks[t].used \notin DOMAIN procs
          /\ (Done(t) /\ tasks[t].op = "unload_model" /\ tasks[t].used # NoServer)
                => tasks[t].used \in stop_calls

\* C20: a file response of /synthesize that has been handed to the framework
\* and is not sent yet names a temporary file that still exists.
C20_FileExistsWhenSent ==
    \A t \in Tasks :
        tasks[t].pc = "file_response_returned" => tasks[t].temp_file = "exists"

\* ----------------------------------------------------------- specification

Step(t) ==
    \/ LoadUnloadActive(t)
    \/ LoadConstruct(t)
    \/ StartKillPort(t)
    \/ StartKillSleep(t)
    \/ StartSpawn(t)
    \/ StartPoll(t)
    \/ StartPollSleep(t)
    \/ StartFetchInfo(t)
    \/ LoadFinish(t)
    \/ UnloadBody(t)
    \/ SynthRequest(t)
    \/ SynthSleep(t)
    \/ SynthesizeTextWrite(t)
    \/ SynthesizeTextFinally(t)
    \/ SendFileResponse(t)
    \/ Return(t)

\* Calls one after another: a call begins when no call is in flight.
NoCallInFlight == \A t \in Tasks : tasks[t].pc = "idle"

Next ==
    \/ \E t \in SeqTasks, id \in ModelIds : NoCallInFlight /\ LoadCall(t, id)
    \/ \E t \in SeqTasks, id \in ModelIds : NoCallInFlight /\ UnloadCall(t, id)
    \/ \E t \in SeqTasks, id \in ModelIds \cup {None}, sp \in SpeakerIds, la \in LanguageIds :
            NoCallInFlight /\ SynthCall(t, id, sp, la)
    \/ \E t \in Tasks : Step(t)

Spec == Init /\ [][Next]_vars

\* The backend is a process of its own (tts-server, lines 69-76) and may
\* exit at any time: a bad model path, out of memory, a port it cannot bind.
\* The Popen object stays in self.process. Nothing in the manager looks at
\* it, so Spec leaves the exits out; SpecExit has them.
ProcessExits(p) ==
    /\ p \in DOMAIN procs
    /\ procs' = [q \in DOMAIN procs \ {p} |-> procs[q]]
    /\ UNCHANGED <<models, active_model, servers, next_id, stop_calls, tasks>>

NextExit ==
    \/ Next
    \/ \E p \in ServerIds : ProcessExits(p)

SpecExit == Init /\ [][NextExit]_vars

\* Overlapping calls on the one event loop. A coroutine gives the loop away
\* only at an await that suspends: the asyncio.sleep of lines 137, 93 and
\* 185/190/194. requests.get, Popen, subprocess.run and process.wait hold
\* the loop, so between two such points a coroutine runs alone.
Suspended(t) ==
    tasks[t].pc \in {"idle", "start_kill_sleep", "start_poll_sleep", "synth_sleep"}

\* Coroutine t may run: every other one is suspended.
HasLoop(t) == \A u \in Tasks \ {t} : Suspended(u)

LifecycleStep(t) ==
    \/ HasLoop(t) /\ LoadUnloadActive(t)
    \/ HasLoop(t) /\ LoadConstruct(t)
    \/ HasLoop(t) /\ StartKillPort(t)
    \/ HasLoop(t) /\ StartKillSleep(t)
    \/ HasLoop(t) /\ StartSpawn(t)
    \/ HasLoop(t) /\ StartPoll(t)
    \/ HasLoop(t) /\ StartPollSleep(t)
    \/ HasLoop(t) /\ StartFetchInfo(t)
    \/ HasLoop(t) /\ LoadFinish(t)
    \/ HasLoop(t) /\ UnloadBody(t)
    \/ HasLoop(t) /\ Return(t)

OverlapNext ==
    \/ \E t \in Tasks, id \in Catalog : HasLoop(t) /\ LoadCall(t, id)
    \/ \E t \in Tasks, id \in Catalog : HasLoop(t) /\ UnloadCall(t, id)
    \/ \E t \in Tasks : HasLoop(t) /\ ListCall(t)
    \/ \E t \in Tasks : LifecycleStep(t)

SpecOverlap == Init /\ [][OverlapNext]_vars

\* ------------------------------------------------------------- termination

\* C19: a load_model call in flight can always take its next step (no step
\* of it waits on the backend for good) and its start() never goes beyond
\* 120 health polls, so the call returns.
C19_LoadNeverBlocks ==
    \A t \in Tasks :
        (tasks[t].op = "load_model" /\ InFlight(t))
        => /\ tasks[t].attempt <= max_attempts
           /\ ENABLED Step(t)

====
